---------------------------- MODULE Spec2Model ----------------------------
(***************************************************************************)
(* A model of the resume analyzer: the text-to-skills pipeline of          *)
(* services/analyzer.py, the suggestion cascade of services/suggestions.py *)
(* and the /analyze request handler of app.py.                             *)
(*                                                                         *)
(* Texts are strings; a character is a string of length 1.  The regular    *)
(* expressions of the source are modelled by scanning operators that       *)
(* accept the same language over the characters listed below.              *)
(***************************************************************************)
EXTENDS Integers, Sequences, FiniteSets, TLC

VARIABLES
    resume_skills,      \* calculate_match: its first argument
    jd_skills,          \* calculate_match: its second argument
    match_result,       \* calculate_match: what it returned, or NoValue
    text,               \* extract_skills / get_skill_frequency: the text
    found_skills,       \* extract_skills(text), or NoValue
    frequency,          \* get_skill_frequency(text, found_skills), or NoValue
    resume_text,        \* analyze_resume / generate_suggestions: the resume
    job_description,    \* analyze_resume: the job description
    analysis,           \* the dict analyze_resume returned, or NoValue
    suggestions,        \* generate_suggestions: the list built so far
    pc,                 \* the position of the running function
    clock,              \* app.py: datetime.now(), in seconds
    upload_folder,      \* app.py: the files of UPLOAD_FOLDER, path -> content
    analyses,           \* app.py: the rows of table analyses, in id order
    requests,           \* app.py: the POST /analyze requests, each with its locals
    gemini_api_key,     \* ai_analyzer.py: whether GEMINI_API_KEY is set
    response            \* app.py: what the last GET request was answered with

matchVars == <<resume_skills, jd_skills, match_result>>
extractVars == <<text, found_skills, frequency>>
pipelineVars == <<resume_text, job_description, analysis, suggestions>>
webVars == <<clock, upload_folder, analyses, requests, gemini_api_key, response>>

vars == <<matchVars, extractVars, pipelineVars, pc, webVars>>

NoValue == "NoValue"

\* the variables a specification does not use keep NoValue
NoMatch == resume_skills = NoValue /\ jd_skills = NoValue /\ match_result = NoValue
NoExtract == text = NoValue /\ found_skills = NoValue /\ frequency = NoValue
NoPipeline ==
    /\ resume_text = NoValue /\ job_description = NoValue
    /\ analysis = NoValue /\ suggestions = NoValue
NoWeb ==
    /\ clock = NoValue /\ upload_folder = NoValue /\ analyses = NoValue
    /\ requests = NoValue /\ gemini_api_key = NoValue /\ response = NoValue

-----------------------------------------------------------------------------
(* Characters and strings.                                                 *)

Char(s, i) == SubSeq(s, i, i)

CharsOf(s) == {Char(s, i) : i \in 1..Len(s)}

LowerLetters == "abcdefghijklmnopqrstuvwxyz"
UpperLetters == "ABCDEFGHIJKLMNOPQRSTUVWXYZ"
DigitChars == "0123456789"

LowerSet == CharsOf(LowerLetters)
UpperSet == CharsOf(UpperLetters)
DigitSet == CharsOf(DigitChars)

\* \w of the re module, over ASCII
WordChar(c) == c \in LowerSet \/ c \in UpperSet \/ c \in DigitSet \/ c = "_"

\* \s of the re module and the separators of str.split(), over ASCII
SpaceSet == {" ", "\t", "\n", "\r", "\f"}
SpaceChar(c) == c \in SpaceSet

\* str.lower() on one character
LowerOf ==
    [c \in UpperSet |->
        Char(LowerLetters, CHOOSE k \in 1..Len(UpperLetters) : Char(UpperLetters, k) = c)]

LowerChar(c) == IF c \in UpperSet THEN LowerOf[c] ELSE c

\* the string of F(c) for the characters c of s[lo..hi], by halves
RECURSIVE MapRange(_, _, _, _)
MapRange(F(_), s, lo, hi) ==
    IF lo > hi THEN ""
    ELSE IF lo = hi THEN F(Char(s, lo))
    ELSE LET mid == (lo + hi) \div 2
         IN  MapRange(F, s, lo, mid) \o MapRange(F, s, mid + 1, hi)

MapChars(F(_), s) == MapRange(F, s, 1, Len(s))

\* str.lower()
Lower(s) == MapChars(LowerChar, s)

\* str.split(): the maximal runs of non-whitespace characters, in order
Split(s) ==
    LET n == Len(s)
        starts == {i \in 1..n : ~SpaceChar(Char(s, i))
                                 /\ (i = 1 \/ SpaceChar(Char(s, i - 1)))}
        EndOf(i) == CHOOSE j \in i..n :
                        /\ \A k \in i..j : ~SpaceChar(Char(s, k))
                        /\ (j = n \/ SpaceChar(Char(s, j + 1)))
        Nth(k) == CHOOSE i \in starts : Cardinality({j \in starts : j <= i}) = k
    IN  [k \in 1..Cardinality(starts) |-> SubSeq(s, Nth(k), EndOf(Nth(k)))]

\* sep.join(words), by halves
RECURSIVE JoinRange(_, _, _, _)
JoinRange(sep, ws, lo, hi) ==
    IF lo > hi THEN ""
    ELSE IF lo = hi THEN ws[lo]
    ELSE LET mid == (lo + hi) \div 2
         IN  JoinRange(sep, ws, lo, mid) \o sep \o JoinRange(sep, ws, mid + 1, hi)

Join(sep, ws) == JoinRange(sep, ws, 1, Len(ws))

\* str.strip()
Strip(s) ==
    LET keep == {i \in 1..Len(s) : ~SpaceChar(Char(s, i))}
    IN  IF keep = {} THEN ""
        ELSE SubSeq(s, CHOOSE i \in keep : \A j \in keep : i <= j,
                       CHOOSE i \in keep : \A j \in keep : i >= j)

\* `needle in haystack` of Python
Contains(haystack, needle) ==
    \E i \in 1..(Len(haystack) - Len(needle) + 1) :
        SubSeq(haystack, i, i + Len(needle) - 1) = needle

Range(f) == {f[i] : i \in DOMAIN f}

-----------------------------------------------------------------------------
(* services/analyzer.py: the vocabulary.                                   *)

(* SKILL_ALIASES: informal token -> canonical name, in table order. *)
SKILL_ALIASES ==
    <<<<"js", "javascript">>,
      <<"ts", "typescript">>,
      <<"py", "python">>,
      <<"node", "node.js">>,
      <<"nodejs", "node.js">>,
      <<"react.js", "react">>,
      <<"reactjs", "react">>,
      <<"vue.js", "vue">>,
      <<"vuejs", "vue">>,
      <<"angular.js", "angular">>,
      <<"angularjs", "angular">>,
      <<"postgres", "postgresql">>,
      <<"mongo", "mongodb">>,
      <<"k8s", "kubernetes">>,
      <<"ml", "machine learning">>,
      <<"dl", "deep learning">>,
      <<"ai", "artificial intelligence">>,
      <<"nlp", "natural language processing">>,
      <<"cv", "computer vision">>,
      <<"aws", "amazon web services">>,
      <<"gcp", "google cloud platform">>,
      <<"ci/cd", "ci/cd">>,
      <<"cicd", "ci/cd">>,
      <<"dotnet", ".net">>,
      <<"csharp", "c#">>,
      <<"cpp", "c++">>,
      <<"golang", "go">>,
      <<"tf", "terraform">>,
      <<"ui", "ui/ux">>,
      <<"ux", "ui/ux">>>>

PROGRAMMING_LANGUAGES ==
    <<"python", "java", "javascript", "typescript", "c++", "c#", "go", "rust",
      "ruby", "php", "swift", "kotlin", "scala", "r programming", "matlab",
      "perl", "bash", "shell scripting", "powershell", "objective-c", "dart">>

FRAMEWORKS_LIBRARIES ==
    <<"react", "angular", "vue", "node.js", "express", "django", "flask",
      "fastapi", "spring", "spring boot", ".net", "rails", "laravel", "next.js",
      "nuxt.js", "svelte", "jquery", "bootstrap", "tailwind", "material ui",
      "redux", "mobx", "graphql", "rest api">>

DATABASES ==
    <<"sql", "mysql", "postgresql", "mongodb", "redis", "elasticsearch",
      "cassandra", "dynamodb", "oracle", "sqlite", "neo4j", "firebase",
      "snowflake", "bigquery", "couchdb", "mariadb">>

CLOUD_DEVOPS ==
    <<"aws", "amazon web services", "azure", "gcp", "google cloud platform",
      "docker", "kubernetes", "jenkins", "terraform", "ansible", "ci/cd",
      "github actions", "gitlab ci", "circleci", "nginx", "apache", "linux",
      "unix", "devops", "microservices", "serverless">>

DATA_AI_ML ==
    <<"machine learning", "deep learning", "artificial intelligence",
      "data analysis", "data science", "pandas", "numpy", "tensorflow",
      "pytorch", "keras", "scikit-learn", "natural language processing",
      "computer vision", "opencv", "hadoop", "spark", "airflow", "power bi",
      "tableau", "excel", "data visualization", "statistics">>

TOOLS_PLATFORMS ==
    <<"git", "github", "gitlab", "bitbucket", "jira", "confluence", "slack",
      "figma", "adobe xd", "photoshop", "illustrator", "vs code", "intellij",
      "postman", "swagger", "jupyter">>

SOFT_SKILLS ==
    <<"communication", "teamwork", "leadership", "problem solving",
      "time management", "critical thinking", "adaptability", "creativity",
      "collaboration", "attention to detail", "project management",
      "analytical skills", "interpersonal skills", "decision making",
      "conflict resolution", "presentation skills", "negotiation",
      "customer service", "mentoring", "strategic thinking", "public speaking",
      "technical writing", "research", "agile", "scrum">>

ALL_SKILLS ==
    PROGRAMMING_LANGUAGES \o FRAMEWORKS_LIBRARIES \o DATABASES \o CLOUD_DEVOPS
      \o DATA_AI_ML \o TOOLS_PLATFORMS \o SOFT_SKILLS

(* EXPERIENCE_LEVELS: level -> keywords, in dictionary order. *)
EXPERIENCE_LEVELS ==
    <<<<"entry", <<"entry level", "junior", "associate", "intern", "internship", "fresher", "graduate", "0-1 years", "0-2 years", "beginner">>>>,
      <<"mid", <<"mid level", "mid-level", "intermediate", "2-4 years", "3-5 years", "2+ years", "3+ years", "4+ years">>>>,
      <<"senior", <<"senior", "lead", "principal", "staff", "architect", "5+ years", "6+ years", "7+ years", "8+ years", "10+ years", "expert", "advanced">>>>>>

(* EDUCATION_KEYWORDS: level -> keywords, in dictionary order. *)
EDUCATION_KEYWORDS ==
    <<<<"phd", <<"phd", "ph.d", "doctorate", "doctoral">>>>,
      <<"masters", <<"master", "ms", "m.s", "msc", "m.sc", "mba", "ma", "m.a">>>>,
      <<"bachelors", <<"bachelor", "bs", "b.s", "bsc", "b.sc", "ba", "b.a", "btech", "b.tech", "be", "b.e">>>>,
      <<"degree", <<"degree", "graduate", "graduated", "university", "college">>>>>>

(* ACTION_VERBS: category -> verbs, in dictionary order. *)
ACTION_VERBS ==
    <<<<"leadership", <<"led", "managed", "directed", "supervised", "coordinated", "oversaw">>>>,
      <<"achievement", <<"achieved", "accomplished", "exceeded", "delivered", "completed">>>>,
      <<"creation", <<"created", "designed", "developed", "built", "implemented", "launched">>>>,
      <<"improvement", <<"improved", "enhanced", "optimized", "streamlined", "reduced", "increased">>>>,
      <<"technical", <<"engineered", "architected", "automated", "integrated", "deployed", "configured">>>>,
      <<"analysis", <<"analyzed", "evaluated", "assessed", "researched", "investigated", "identified">>>>>>

IMPORTANT_SECTIONS ==
    <<"experience", "education", "skills", "projects", "summary", "objective">>
-----------------------------------------------------------------------------
(* services/analyzer.py: normalisation, extraction, frequency.             *)

\* re.sub(r'[/\\|,;:\-\(\)\[\]\{\}]', ' ', text)
SeparatorSet == {"/", "\\", "|", ",", ";", ":", "-", "(", ")", "[", "]", "{", "}"}

\* one character through the two re.sub calls of preprocess_text
PreprocessChar(c) ==
    IF c \in SeparatorSet THEN " "
    ELSE IF WordChar(c) \/ SpaceChar(c) \/ c \in {".", "+", "#"} THEN c
    ELSE " "

preprocess_text(t) == Join(" ", Split(MapChars(PreprocessChar, Lower(t))))

AliasKeys == {SKILL_ALIASES[i][1] : i \in DOMAIN SKILL_ALIASES}

\* SKILL_ALIASES.get(key, key)
AliasGet(key) ==
    IF key \in AliasKeys
    THEN SKILL_ALIASES[CHOOSE i \in DOMAIN SKILL_ALIASES : SKILL_ALIASES[i][1] = key][2]
    ELSE key

normalize_skill(skill) == AliasGet(Strip(Lower(skill)))

\* the loop of extract_skills that appends the canonical form of every alias word
RECURSIVE ExpandAliases(_, _)
ExpandAliases(processed, words) ==
    IF words = <<>> THEN processed
    ELSE LET normalized == normalize_skill(Head(words))
         IN  ExpandAliases(IF normalized # Head(words)
                           THEN processed \o " " \o normalized
                           ELSE processed,
                           Tail(words))

\* the character class [\s,;:\-\(\)\[\]] of the skill pattern
DelimSet == SpaceSet \cup {",", ";", ":", "-", "(", ")", "[", "]"}

\* the offsets (0-based) of s where the opening group (?:^|[...]) can match: the
\* start of s and every character of the class
OpeningOffsets(s) == {0} \cup {i \in 0..(Len(s) - 1) : Char(s, i + 1) \in DelimSet}

\* the pattern without its closing group: skill may end inside a longer word
PatternEndAt_NoBoundary(skill, s, i) ==
    LET n == Len(skill)
        After(j) ==
            IF j + n <= Len(s) /\ SubSeq(s, j + 1, j + n) = skill THEN j + n ELSE -1
    IN  IF i = 0 /\ After(0) # -1 THEN After(0)
        ELSE IF i < Len(s) /\ Char(s, i + 1) \in DelimSet THEN After(i + 1)
        ELSE -1

\* (?:^|[...])skill(?:$|[...]) tried at offset i (0-based) of s: the offset just
\* after the match, or -1.  Each group tries its zero-width branch first.
PatternEndAt(skill, s, i) ==
    LET n == Len(skill)
        After(j) ==     \* skill starts at 0-based offset j
            IF j + n <= Len(s) /\ SubSeq(s, j + 1, j + n) = skill
            THEN IF j + n = Len(s) THEN j + n
                 ELSE IF Char(s, j + n + 1) \in DelimSet THEN j + n + 1
                 ELSE -1
            ELSE -1
    IN  IF i = 0 /\ After(0) # -1 THEN After(0)
        ELSE IF i < Len(s) /\ Char(s, i + 1) \in DelimSet THEN After(i + 1)
        ELSE -1

\* re.search(pattern, s), the offsets to try given
PatternSearch(skill, s, offsets) == \E i \in offsets : PatternEndAt(skill, s, i) # -1

\* len(re.findall(pattern, s)): leftmost matches, each scan resuming where the
\* previous match ended
RECURSIVE PatternCountFrom(_, _, _)
PatternCountFrom(skill, s, from) ==
    LET starts == {i \in OpeningOffsets(s) : i >= from /\ PatternEndAt(skill, s, i) # -1}
    IN  IF starts = {} THEN 0
        ELSE LET i == CHOOSE k \in starts : \A m \in starts : k <= m
                 e == PatternEndAt(skill, s, i)
             IN  1 + PatternCountFrom(skill, s, IF e > i THEN e ELSE i + 1)

\* skill.lower() of every vocabulary entry, by its index in ALL_SKILLS
LowerSkill == [k \in DOMAIN ALL_SKILLS |-> Lower(ALL_SKILLS[k])]

extract_skills(t) ==
    LET text_processed == preprocess_text(t)
        expanded == ExpandAliases(text_processed, Split(text_processed))
        padded == " " \o expanded \o " "
        offsets == OpeningOffsets(padded)
    IN  {ALL_SKILLS[k] : k \in {j \in DOMAIN ALL_SKILLS :
                                  PatternSearch(LowerSkill[j], padded, offsets)}}

\* the dict get_skill_frequency returns: only skills with a match are keys
get_skill_frequency(t, skills) ==
    LET padded == " " \o preprocess_text(t) \o " "
        count(skill) == PatternCountFrom(Lower(skill), padded, 0)
    IN  [skill \in {s \in skills : count(s) > 0} |-> count(skill)]

-----------------------------------------------------------------------------
(* services/analyzer.py: the metadata detectors.                           *)

\* the levels of a keyword table with a keyword occurring in text_lower, in
\* table order (the `detected` list of both detectors)
RECURSIVE DetectedLevels(_, _)
DetectedLevels(table, text_lower) ==
    IF table = <<>> THEN <<>>
    ELSE (IF \E k \in DOMAIN table[1][2] : Contains(text_lower, table[1][2][k])
          THEN <<table[1][1]>> ELSE <<>>)
         \o DetectedLevels(Tail(table), text_lower)

detect_experience_level(t) ==
    LET detected == Range(DetectedLevels(EXPERIENCE_LEVELS, Lower(t)))
    IN  IF detected = {} THEN "not specified"
        ELSE IF "senior" \in detected THEN "senior"
        ELSE IF "mid" \in detected THEN "mid"
        ELSE "entry"

detect_education_requirement(t) == DetectedLevels(EDUCATION_KEYWORDS, Lower(t))

IsDigit(s, i) == i >= 1 /\ i <= Len(s) /\ Char(s, i) \in DigitSet
IsSpace(s, i) == i >= 1 /\ i <= Len(s) /\ SpaceChar(Char(s, i))

\* whether lit occurs in s at index i (1-based)
LitAt(s, i, lit) == i >= 1 /\ i + Len(lit) - 1 <= Len(s) /\ SubSeq(s, i, i + Len(lit) - 1) = lit

\* the index just after the longest run of digits (\d*) / whitespace (\s*) at i
SkipDigits(s, i) == CHOOSE j \in i..(Len(s) + 1) :
                        (\A k \in i..(j - 1) : IsDigit(s, k)) /\ ~IsDigit(s, j)

SkipSpaces(s, i) == CHOOSE j \in i..(Len(s) + 1) :
                        (\A k \in i..(j - 1) : IsSpace(s, k)) /\ ~IsSpace(s, j)

\* an optional literal: the index after it when it is there
SkipOpt(s, i, lit) == IF LitAt(s, i, lit) THEN i + Len(lit) ELSE i

\* (?:years?|yrs?) at i: the index after it, or 0
YearsEndAt(s, i) ==
    IF LitAt(s, i, "year") THEN SkipOpt(s, i + 4, "s")
    ELSE IF LitAt(s, i, "yr") THEN SkipOpt(s, i + 2, "s")
    ELSE 0

\* int(m) of a string of digits
RECURSIVE IntOf(_)
IntOf(ds) ==
    IF ds = "" THEN 0
    ELSE 10 * IntOf(SubSeq(ds, 1, Len(ds) - 1))
         + ((CHOOSE k \in 1..10 : Char(DigitChars, k) = Char(ds, Len(ds))) - 1)

\* (\d+)\+?\s*(?:years?|yrs?)\s*(?:of)?\s*(?:experience|exp)? at i: <<index after
\* the match, captured digits>>, or <<0, "">>.  \d+ can only stop at the end of
\* the run of digits: what follows must be '+', whitespace or 'y'.
YearsPattern1At(s, i) ==
    IF ~IsDigit(s, i) THEN <<0, "">>
    ELSE LET d == SkipDigits(s, i)
             y == YearsEndAt(s, SkipSpaces(s, SkipOpt(s, d, "+")))
         IN  IF y = 0 THEN <<0, "">>
             ELSE LET o == SkipOpt(s, SkipSpaces(s, y), "of")
                      x == SkipSpaces(s, o)
                      e == IF LitAt(s, x, "experience") THEN x + 10
                           ELSE IF LitAt(s, x, "exp") THEN x + 3
                           ELSE x
                  IN  <<e, SubSeq(s, i, d - 1)>>

\* (?:minimum|at least|min)\s*(\d+)\s*(?:years?|yrs?) at i
YearsPattern2At(s, i) ==
    LET Rest(j) ==
            LET b == SkipSpaces(s, j)
                d == SkipDigits(s, b)
                y == YearsEndAt(s, SkipSpaces(s, d))
            IN  IF d > b /\ y # 0 THEN <<y, SubSeq(s, b, d - 1)>> ELSE <<0, "">>
        Try(lit) == IF LitAt(s, i, lit) THEN Rest(i + Len(lit)) ELSE <<0, "">>
    IN  IF Try("minimum")[1] # 0 THEN Try("minimum")
        ELSE IF Try("at least")[1] # 0 THEN Try("at least")
        ELSE Try("min")

\* (\d+)\s*-\s*\d+\s*(?:years?|yrs?) at i
YearsPattern3At(s, i) ==
    IF ~IsDigit(s, i) THEN <<0, "">>
    ELSE LET d == SkipDigits(s, i)
             h == SkipSpaces(s, d)
         IN  IF ~LitAt(s, h, "-") THEN <<0, "">>
             ELSE LET b == SkipSpaces(s, h + 1)
                      d2 == SkipDigits(s, b)
                      y == YearsEndAt(s, SkipSpaces(s, d2))
                  IN  IF d2 > b /\ y # 0 THEN <<y, SubSeq(s, i, d - 1)>>
                      ELSE <<0, "">>

\* re.findall with one group: the captures of the leftmost matches, each scan
\* resuming where the previous match ended
RECURSIVE FindAllFrom(_, _, _)
FindAllFrom(At(_, _), s, from) ==
    LET starts == {i \in from..Len(s) : At(s, i)[1] # 0}
    IN  IF starts = {} THEN <<>>
        ELSE LET i == CHOOSE k \in starts : \A m \in starts : k <= m
             IN  <<At(s, i)[2]>> \o FindAllFrom(At, s, At(s, i)[1])

\* an optional number: None, or Some(n)
None == {}
Some(n) == {n}

\* the minimum of the first pattern that matches, instead of all patterns
extract_years_experience_PerPattern(t) ==
    LET text_lower == Lower(t)
        first == FindAllFrom(YearsPattern1At, text_lower, 1)
        second == FindAllFrom(YearsPattern2At, text_lower, 1)
        third == FindAllFrom(YearsPattern3At, text_lower, 1)
        captures == IF first # <<>> THEN first ELSE IF second # <<>> THEN second ELSE third
        years == {IntOf(captures[k]) : k \in DOMAIN captures}
    IN  IF years = {} THEN None
        ELSE Some(CHOOSE y \in years : \A z \in years : y <= z)

extract_years_experience(t) ==
    LET text_lower == Lower(t)
        captures == FindAllFrom(YearsPattern1At, text_lower, 1)
                    \o FindAllFrom(YearsPattern2At, text_lower, 1)
                    \o FindAllFrom(YearsPattern3At, text_lower, 1)
        years == {IntOf(captures[k]) : k \in DOMAIN captures}
    IN  IF years = {} THEN None
        ELSE Some(CHOOSE y \in years : \A z \in years : y <= z)

-----------------------------------------------------------------------------
(* services/analyzer.py: categorisation, matching, the orchestrator.       *)

CATEGORY_TABLE ==
    <<<<"programming", PROGRAMMING_LANGUAGES>>, <<"frameworks", FRAMEWORKS_LIBRARIES>>,
      <<"databases", DATABASES>>, <<"cloud_devops", CLOUD_DEVOPS>>,
      <<"data_ai", DATA_AI_ML>>, <<"tools", TOOLS_PLATFORMS>>,
      <<"soft_skills", SOFT_SKILLS>>>>

CategoryNames == {CATEGORY_TABLE[k][1] : k \in DOMAIN CATEGORY_TABLE}

\* [s.lower() for s in LIST] of each category list
LowerCategory == [k \in DOMAIN CATEGORY_TABLE |->
                    {Lower(CATEGORY_TABLE[k][2][j]) : j \in DOMAIN CATEGORY_TABLE[k][2]}]

\* the chain without its last branch
CategoryOf_NoSoftSkills(skill) ==
    LET hits == {k \in DOMAIN CATEGORY_TABLE : Lower(skill) \in LowerCategory[k]}
                    \ {Len(CATEGORY_TABLE)}
    IN  IF hits = {} THEN NoValue
        ELSE CATEGORY_TABLE[CHOOSE k \in hits : \A m \in hits : k <= m][1]

\* the if/elif chain of categorize_skills: the first category whose list holds the
\* skill, or NoValue when none does
CategoryOf(skill) ==
    LET hits == {k \in DOMAIN CATEGORY_TABLE : Lower(skill) \in LowerCategory[k]}
    IN  IF hits = {} THEN NoValue
        ELSE CATEGORY_TABLE[CHOOSE k \in hits : \A m \in hits : k <= m][1]

\* the dict categorize_skills returns.  Its argument is a list in set-iteration
\* order, so each category list is modelled by the set of its elements.
categorize_skills(skills) ==
    [c \in CategoryNames |-> {s \in skills : CategoryOf(s) = c}]

\* the score rounded to a whole percent
RoundTenths_Whole(num, den) ==
    LET q == (100 * num) \div den
        r == (100 * num) % den
    IN  10 * (IF 2 * r >= den THEN q + 1 ELSE q)

\* the score cut to the tenth below instead of rounded
RoundTenths_Truncate(num, den) == (1000 * num) \div den

\* round(x, 1) of x = 100 * num / den, in tenths: the nearest tenth.  An exact
\* half needs 16 to divide den, more skills than the lists checked here have;
\* it is taken to the even tenth.
RoundTenths(num, den) ==
    LET q == (1000 * num) \div den
        r == (1000 * num) % den
    IN  IF 2 * r > den \/ (2 * r = den /\ q % 2 = 1) THEN q + 1 ELSE q

get_original_case(skill_lower) ==
    LET hits == {k \in DOMAIN ALL_SKILLS : LowerSkill[k] = skill_lower}
    IN  IF hits = {} THEN skill_lower
        ELSE ALL_SKILLS[CHOOSE k \in hits : \A m \in hits : k <= m]

\* calculate_match with extra not reduced by the job-description skills
calculate_match_ExtraAll(resume, jd) ==
    IF jd = {}
    THEN [score |-> 0, matched |-> {}, missing |-> {}, extra |-> resume]
    ELSE LET resume_skills_set == {Lower(s) : s \in resume}
             jd_skills_set == {Lower(s) : s \in jd}
             matched == resume_skills_set \cap jd_skills_set
             missing == jd_skills_set \ resume_skills_set
         IN  [score |-> RoundTenths(Cardinality(matched), Cardinality(jd_skills_set)),
              matched |-> {get_original_case(s) : s \in matched},
              missing |-> {get_original_case(s) : s \in missing},
              extra |-> {get_original_case(s) : s \in resume_skills_set}]

\* calculate_match: the score in tenths of a percent, and the three lists (each
\* built from a set, so modelled by the set of its elements)
calculate_match(resume, jd) ==
    IF jd = {}
    THEN [score |-> 0, matched |-> {}, missing |-> {}, extra |-> resume]
    ELSE LET resume_skills_set == {Lower(s) : s \in resume}
             jd_skills_set == {Lower(s) : s \in jd}
             matched == resume_skills_set \cap jd_skills_set
             missing == jd_skills_set \ resume_skills_set
             extra == resume_skills_set \ jd_skills_set
         IN  [score |-> RoundTenths(Cardinality(matched), Cardinality(jd_skills_set)),
              matched |-> {get_original_case(s) : s \in matched},
              missing |-> {get_original_case(s) : s \in missing},
              extra |-> {get_original_case(s) : s \in extra}]

\* the characters of the model in code-point order, for the comparison sorted()
\* makes
AsciiOrder ==
    "\t\n\f\r !\"#$%&'()*+,-./0123456789:;<=>?@ABCDEFGHIJKLMNOPQRSTUVWXYZ[\\]^_abcdefghijklmnopqrstuvwxyz{|}~"

Ord(c) == CHOOSE k \in 1..Len(AsciiOrder) : Char(AsciiOrder, k) = c

RECURSIVE StrLess(_, _)
StrLess(a, b) ==
    IF b = "" THEN FALSE
    ELSE IF a = "" THEN TRUE
    ELSE IF Head(a) = Head(b) THEN StrLess(Tail(a), Tail(b))
    ELSE Ord(Head(a)) < Ord(Head(b))

RECURSIVE Sorted(_)
Sorted(set) ==
    IF set = {} THEN <<>>
    ELSE LET least == CHOOSE a \in set : \A b \in set \ {a} : StrLess(a, b)
         IN  <<least>> \o Sorted(set \ {least})

\* the filter of lines 308-311 with the threshold 1 in place of 2
HighPriorityMissing_Once(missing, jd_skill_freq) ==
    {skill \in missing :
        (IF skill \in DOMAIN jd_skill_freq THEN jd_skill_freq[skill] ELSE 0) >= 1}

\* analyze_resume lines 308-311: the missing skills with
\* jd_skill_freq.get(skill, 0) >= 2
HighPriorityMissing(missing, jd_skill_freq) ==
    {skill \in missing :
        (IF skill \in DOMAIN jd_skill_freq THEN jd_skill_freq[skill] ELSE 0) >= 2}

analyze_resume(resume, jd) ==
    LET resume_sk == extract_skills(resume)
        jd_sk == extract_skills(jd)
        m == calculate_match(resume_sk, jd_sk)
        jd_skill_freq == get_skill_frequency(jd, jd_sk)
        high_priority_missing == HighPriorityMissing(m.missing, jd_skill_freq)
    IN  [match_score |-> m.score,
         matched_skills |-> Sorted(m.matched),
         missing_skills |-> Sorted(m.missing),
         extra_skills |-> Sorted(m.extra),
         high_priority_missing |-> Sorted(high_priority_missing),
         matched_categories |-> categorize_skills(m.matched),
         missing_categories |-> categorize_skills(m.missing),
         resume_skill_count |-> Cardinality(resume_sk),
         jd_skill_count |-> Cardinality(jd_sk),
         jd_experience_level |-> detect_experience_level(jd),
         jd_years_required |-> extract_years_experience(jd),
         jd_education |-> detect_education_requirement(jd),
         resume_experience_level |-> detect_experience_level(resume),
         resume_education |-> detect_education_requirement(resume)]

-----------------------------------------------------------------------------
(* services/suggestions.py: the micro-detectors.                           *)

ALL_ACTION_VERBS == UNION {Range(ACTION_VERBS[c][2]) : c \in DOMAIN ACTION_VERBS}

\* a count of every occurrence of a verb instead of every verb that occurs
check_action_verbs_Occurrences(resume) ==
    LET text_lower == Lower(resume)
        found == [c \in {ACTION_VERBS[k][1] : k \in DOMAIN ACTION_VERBS} |->
                    LET verbs == ACTION_VERBS[CHOOSE k \in DOMAIN ACTION_VERBS :
                                                 ACTION_VERBS[k][1] = c][2]
                    IN  {verbs[k] : k \in {j \in DOMAIN verbs : Contains(text_lower, verbs[j])}}]
        occurrences == {<<verb, i>> \in ALL_ACTION_VERBS \X (1..Len(text_lower)) :
                           i + Len(verb) - 1 <= Len(text_lower)
                           /\ SubSeq(text_lower, i, i + Len(verb) - 1) = verb}
    IN  [found |-> found, total_found |-> Cardinality(occurrences)]

\* check_action_verbs: found[category] is the list of the category's verbs that
\* occur in the lowercased text (modelled by its set), total_found the sum of
\* the lists' lengths
check_action_verbs(resume) ==
    LET text_lower == Lower(resume)
        found == [c \in {ACTION_VERBS[k][1] : k \in DOMAIN ACTION_VERBS} |->
                    LET verbs == ACTION_VERBS[CHOOSE k \in DOMAIN ACTION_VERBS :
                                                 ACTION_VERBS[k][1] = c][2]
                    IN  {verbs[k] : k \in {j \in DOMAIN verbs : Contains(text_lower, verbs[j])}}]
        Sum[k \in 0..Len(ACTION_VERBS)] ==
            IF k = 0 THEN 0 ELSE Sum[k - 1] + Cardinality(found[ACTION_VERBS[k][1]])
    IN  [found |-> found, total_found |-> Sum[Len(ACTION_VERBS)]]

\* \d+% at i
PercentAt(s, i) ==
    IF IsDigit(s, i) /\ LitAt(s, SkipDigits(s, i), "%")
    THEN <<SkipDigits(s, i) + 1, SubSeq(s, i, SkipDigits(s, i))>> ELSE <<0, "">>

\* \$[\d,]+ at i
DollarAt(s, i) ==
    LET InClass(k) == IsDigit(s, k) \/ LitAt(s, k, ",")
        e == CHOOSE j \in (i + 1)..(Len(s) + 1) :
                 (\A k \in (i + 1)..(j - 1) : InClass(k)) /\ ~InClass(j)
    IN  IF LitAt(s, i, "$") /\ InClass(i + 1) THEN <<e, SubSeq(s, i, e - 1)>>
        ELSE <<0, "">>

\* \d+\+ at i
PlusAt(s, i) ==
    IF IsDigit(s, i) /\ LitAt(s, SkipDigits(s, i), "+")
    THEN <<SkipDigits(s, i) + 1, SubSeq(s, i, SkipDigits(s, i))>> ELSE <<0, "">>

\* \d{2,} at i
TwoDigitsAt(s, i) ==
    IF IsDigit(s, i) /\ IsDigit(s, i + 1)
    THEN <<SkipDigits(s, i), SubSeq(s, i, SkipDigits(s, i) - 1)>> ELSE <<0, "">>

\* #\d+ at i
RankAt(s, i) ==
    IF LitAt(s, i, "#") /\ IsDigit(s, i + 1)
    THEN <<SkipDigits(s, i + 1), SubSeq(s, i, SkipDigits(s, i + 1) - 1)>> ELSE <<0, "">>

\* check_quantifiable_achievements: len(metrics), over the raw text
check_quantifiable_achievements(resume) ==
    Len(FindAllFrom(PercentAt, resume, 1)) + Len(FindAllFrom(DollarAt, resume, 1))
    + Len(FindAllFrom(PlusAt, resume, 1)) + Len(FindAllFrom(TwoDigitsAt, resume, 1))
    + Len(FindAllFrom(RankAt, resume, 1))

\* check_resume_length: word_count
check_resume_length(resume) == Len(Split(resume))

\* check_sections: the missing sections, in the order of IMPORTANT_SECTIONS
check_sections(resume) ==
    SelectSeq(IMPORTANT_SECTIONS, LAMBDA sec : ~Contains(Lower(resume), sec))

\* re.search(r'[\w\.-]+@[\w\.-]+\.\w+', s)
EmailSearch(s) ==
    LET NameChar(k) == k >= 1 /\ k <= Len(s)
                       /\ (WordChar(Char(s, k)) \/ Char(s, k) \in {".", "-"})
    IN  \E a \in 1..Len(s) :
            /\ Char(s, a) = "@"
            /\ NameChar(a - 1)
            /\ \E j \in (a + 2)..(Len(s) - 1) :
                   /\ \A k \in (a + 1)..(j - 1) : NameChar(k)
                   /\ Char(s, j) = "."
                   /\ WordChar(Char(s, j + 1))

\* re.search(r'[\+]?[\d\s\-\(\)]{10,}', s)
PhoneSearch(s) ==
    \E i \in 1..(Len(s) - 9) :
        \A k \in i..(i + 9) :
            Char(s, k) \in DigitSet \/ SpaceChar(Char(s, k)) \/ Char(s, k) \in {"-", "(", ")"}

check_contact_info(resume) ==
    [email |-> EmailSearch(resume),
     phone |-> PhoneSearch(resume),
     linkedin |-> Contains(Lower(resume), "linkedin"),
     github |-> Contains(Lower(resume), "github"),
     portfolio |-> \E w \in {"portfolio", "website", "blog"} : Contains(Lower(resume), w)]

\* re.search of  a.{0,50}b  in s: '.' matches anything but a newline
NearSearch(s, a, b) ==
    \E i \in 1..Len(s) :
        /\ LitAt(s, i, a)
        /\ \E j \in (i + Len(a))..(i + Len(a) + 50) :
               /\ LitAt(s, j, b)
               /\ \A k \in (i + Len(a))..(j - 1) : Char(s, k) # "\n"

\* check_keyword_stuffing: <<contextual_skills, len(skills)>>
check_keyword_stuffing(resume, skills) ==
    LET text_lower == Lower(resume)
        InContext(skill) ==
            \E verb \in ALL_ACTION_VERBS :
                \/ NearSearch(text_lower, verb, Lower(skill))
                \/ NearSearch(text_lower, Lower(skill), verb)
    IN  <<Cardinality({k \in DOMAIN skills : InContext(skills[k])}), Len(skills)>>

-----------------------------------------------------------------------------
(* Texts of a specification: some words joined by single spaces.           *)

RECURSIVE TextsOf(_, _)
TextsOf(words, n) ==
    IF n = 0 THEN {}
    ELSE Range(words) \cup
         {t \o " " \o w : t \in TextsOf(words, n - 1), w \in Range(words)}

-----------------------------------------------------------------------------
(* SpecMatch: calculate_match on the skill lists extract_skills can        *)
(* return, which are duplicate-free lists of vocabulary entries.           *)

NumMatchSkills == 4
MatchSkills == {ALL_SKILLS[k] : k \in 1..NumMatchSkills}

InitMatch ==
    /\ resume_skills \in SUBSET MatchSkills
    /\ jd_skills \in SUBSET MatchSkills
    /\ match_result = NoValue
    /\ pc = "match"
    /\ NoExtract /\ NoPipeline /\ NoWeb

CalculateMatch ==
    /\ pc = "match"
    /\ match_result' = calculate_match(resume_skills, jd_skills)
    /\ pc' = "matched"
    /\ UNCHANGED <<resume_skills, jd_skills, extractVars, pipelineVars, webVars>>

NextMatch == CalculateMatch

SpecMatch == InitMatch /\ [][NextMatch]_vars

(* C1: the three lists calculate_match returns partition its inputs:       *)
(* matched and missing are disjoint and together are the job-description   *)
(* skills; matched and extra are disjoint and together are the resume      *)
(* skills; also when the job description has no skills.                    *)
C1_Partition ==
    pc = "matched" =>
        /\ match_result.matched \cap match_result.missing = {}
        /\ match_result.matched \cup match_result.missing = jd_skills
        /\ match_result.matched \cap match_result.extra = {}
        /\ match_result.matched \cup match_result.extra = resume_skills

C1_Witness ==
    /\ pc = "matched"
    /\ match_result.matched # {}
    /\ match_result.missing # {}
    /\ match_result.extra # {}

(* C2: with a non-empty job-description skill set the score is             *)
(* 100 * |matched| / |jd| rounded to one decimal (in tenths: within half a *)
(* tenth of the exact quotient) and lies in 0..100; with an empty one the  *)
(* score is 0.0, matched and missing are empty and extra is the resume     *)
(* skills.                                                                 *)
C2_Score ==
    pc = "matched" =>
        LET m == Cardinality(resume_skills \cap jd_skills)
            n == Cardinality(jd_skills)
            d == match_result.score * n - 1000 * m
        IN  IF jd_skills = {}
            THEN /\ match_result.score = 0
                 /\ match_result.matched = {}
                 /\ match_result.missing = {}
                 /\ match_result.extra = resume_skills
            ELSE /\ 0 <= match_result.score
                 /\ match_result.score <= 1000
                 /\ 2 * d <= n
                 /\ -2 * d <= n

C2_Witness ==
    /\ pc = "matched"
    /\ Cardinality(jd_skills) = 3
    /\ Cardinality(match_result.matched) = 2
    /\ match_result.score = 667

-----------------------------------------------------------------------------
(* SpecExtract: extract_skills and get_skill_frequency on one text.        *)

ExtractWords ==
    <<"java", "javascript", "js", "aws", "c++", "ci/cd", "cicd", "Kubernetes,",
      "machine", "learning">>
MaxExtractWords == 2

ExampleTexts == {"javascript", "c++ developer", "I use js daily"}

\* the texts that are the name of one vocabulary skill
CanonicalNames == Range(ALL_SKILLS)

InitExtract ==
    /\ text \in TextsOf(ExtractWords, MaxExtractWords) \cup ExampleTexts \cup CanonicalNames
    /\ found_skills = NoValue
    /\ frequency = NoValue
    /\ pc = "extract"
    /\ NoMatch /\ NoPipeline /\ NoWeb

ExtractSkills ==
    /\ pc = "extract"
    /\ found_skills' = extract_skills(text)
    /\ frequency' = get_skill_frequency(text, extract_skills(text))
    /\ pc' = "extracted"
    /\ UNCHANGED <<text, matchVars, pipelineVars, webVars>>

NextExtract == ExtractSkills

SpecExtract == InitExtract /\ [][NextExtract]_vars

\* the entries a -> c of the alias table whose target is a vocabulary skill
VocabularyAliases ==
    {k \in DOMAIN SKILL_ALIASES : SKILL_ALIASES[k][2] \in Range(ALL_SKILLS)}

(* C4: for every alias a -> c whose target c is a vocabulary skill, a text *)
(* with a as a whole whitespace-delimited token yields c.                  *)
C4_AliasEquivalence ==
    pc = "extracted" =>
        \A k \in VocabularyAliases :
            SKILL_ALIASES[k][1] \in Range(Split(text))
                => SKILL_ALIASES[k][2] \in found_skills

\* a character that ends a word: whitespace or punctuation other than . + #
IsSeparator(c) == ~WordChar(c) /\ c \notin {".", "+", "#"}

\* name occurs in t from index i on, a space of name standing for a run of
\* separators of t, and a separator or the end of t follows
RECURSIVE OccursFrom(_, _, _, _)
OccursFrom(name, k, t, i) ==
    IF k > Len(name) THEN i > Len(t) \/ IsSeparator(Char(t, i))
    ELSE IF i > Len(t) THEN FALSE
    ELSE IF Char(name, k) = " "
         THEN /\ IsSeparator(Char(t, i))
              /\ OccursFrom(name, k + 1, t,
                            CHOOSE j \in (i + 1)..(Len(t) + 1) :
                                /\ \A h \in i..(j - 1) : IsSeparator(Char(t, h))
                                /\ (j > Len(t) \/ ~IsSeparator(Char(t, j))))
         ELSE Char(name, k) = Char(t, i) /\ OccursFrom(name, k + 1, t, i + 1)

\* the indices of t where name occurs as whole words
WordOccurrences(name, t) ==
    {i \in 1..Len(t) : /\ i = 1 \/ IsSeparator(Char(t, i - 1))
                       /\ OccursFrom(name, 1, t, i)}

(* C5: a skill is reported only if its lowercase name, or an alias token   *)
(* that maps to it, occurs in the text between separators or the ends of   *)
(* the text, never only inside a longer word: "javascript" does not report *)
(* java, "c++ developer" reports c++.                                      *)
C5_BoundarySafety ==
    pc = "extracted" =>
        /\ \A s \in found_skills :
               \/ WordOccurrences(Lower(s), Lower(text)) # {}
               \/ \E k \in DOMAIN SKILL_ALIASES :
                      /\ SKILL_ALIASES[k][2] = Lower(s)
                      /\ WordOccurrences(SKILL_ALIASES[k][1], Lower(text)) # {}
        /\ text = "javascript" => "java" \notin found_skills
        /\ text = "c++ developer" => "c++" \in found_skills

C5_Witness ==
    /\ pc = "extracted"
    /\ text = "java javascript"
    /\ found_skills = {"java", "javascript"}

-----------------------------------------------------------------------------
(* services/suggestions.py: generate_suggestions, one action per numbered  *)
(* rule of the function.  An item is the dict appended: its type, its      *)
(* category, and its message as the leading words of the template followed *)
(* by the values the f-string interpolates.                                *)

Item(type, category, message) ==
    [type |-> type, category |-> category, message |-> message]

\* list[:n] of a sorted list
Take(list, n) == SubSeq(list, 1, IF Len(list) < n THEN Len(list) ELSE n)

\* list[:n] of a list in set-iteration order: any n of its elements
TakeAny(set, n) ==
    {T \in SUBSET set : Cardinality(T) = IF Cardinality(set) < n THEN Cardinality(set) ELSE n}

\* the bands with the info band left out
ScoreBand_NoInfo(match_score) ==
    IF match_score >= 800 THEN Item("success", "Match Score", <<"Excellent match", match_score>>)
    ELSE IF match_score >= 400 THEN Item("warning", "Match Score", <<"Moderate match", match_score>>)
    ELSE Item("danger", "Match Score", <<"Low match", match_score>>)

\* the band of rule 1 (also get_score_category's), the score in tenths
ScoreBand(match_score) ==
    IF match_score >= 800 THEN Item("success", "Match Score", <<"Excellent match", match_score>>)
    ELSE IF match_score >= 600 THEN Item("info", "Match Score", <<"Good match", match_score>>)
    ELSE IF match_score >= 400 THEN Item("warning", "Match Score", <<"Moderate match", match_score>>)
    ELSE Item("danger", "Match Score", <<"Low match", match_score>>)

\* lines 122-146, rule 1: the band of the score
MatchScoreItems(result) == <<ScoreBand(result.match_score)>>

\* lines 148-154, rule 2
HighPriorityItems(result) ==
    IF result.high_priority_missing # <<>>
    THEN <<Item("danger", "Critical Skills Gap",
                <<"These skills are mentioned multiple times",
                  Take(result.high_priority_missing, 5)>>)>>
    ELSE <<>>

\* lines 156-176, rule 3: prog, fram and cloud are the [:4] of the lists
CategoryItems(result, prog, fram, cloud) ==
    (IF result.missing_categories["programming"] # {}
     THEN <<Item("warning", "Programming Languages",
                 <<"Missing programming languages", prog>>)>>
     ELSE <<>>)
    \o (IF result.missing_categories["frameworks"] # {}
        THEN <<Item("warning", "Frameworks",
                    <<"Missing frameworks/libraries", fram>>)>>
        ELSE <<>>)
    \o (IF result.missing_categories["cloud_devops"] # {}
        THEN <<Item("info", "Cloud/DevOps",
                    <<"Missing cloud/DevOps skills", cloud>>)>>
        ELSE <<>>)

\* `if jd_years_required:` is the truth value of the number or of None
Truthy(value) == value # None /\ value # Some(0)

\* lines 178-191, rule 4
ExperienceItems(result) ==
    (IF result.jd_experience_level # "not specified"
     THEN <<Item("info", "Experience Level",
                 <<"This appears to be a", result.jd_experience_level,
                   IF result.jd_experience_level = "senior"
                   THEN "Highlight your growth and quick learning ability."
                   ELSE "Your enthusiasm and recent projects can compensate for less experience.">>)>>
     ELSE <<>>)
    \o (IF Truthy(result.jd_years_required)
        THEN <<Item("info", "Years Required",
                    <<"The job requires approximately", result.jd_years_required>>)>>
        ELSE <<>>)

\* lines 193-208, rule 5
ActionVerbItems(resume) ==
    LET verbs == check_action_verbs(resume)
        names == [k \in DOMAIN ACTION_VERBS |-> ACTION_VERBS[k][1]]
        weak_categories == SelectSeq(names, LAMBDA c : verbs.found[c] = {})
    IN  IF verbs.total_found < 5
        THEN <<Item("warning", "Action Verbs",
                    <<"Your resume lacks strong action verbs.">>)>>
        ELSE IF verbs.total_found < 10 /\ weak_categories # <<>>
        THEN <<Item("info", "Action Verbs",
                    <<"Consider adding more", Take(weak_categories, 2)>>)>>
        ELSE <<>>

\* lines 210-223, rule 6
MetricItems(resume) ==
    LET metric_count == check_quantifiable_achievements(resume)
    IN  IF metric_count = 0
        THEN <<Item("warning", "Quantifiable Results", <<"No metrics found!">>)>>
        ELSE IF metric_count < 4
        THEN <<Item("info", "Quantifiable Results", <<"Found", metric_count>>)>>
        ELSE <<>>

\* lines 225-238, rule 7
LengthItems(resume) ==
    LET word_count == check_resume_length(resume)
    IN  IF word_count < 200
        THEN <<Item("warning", "Content Length",
                    <<"Your resume seems too short", word_count>>)>>
        ELSE IF word_count > 1200
        THEN <<Item("info", "Content Length",
                    <<"Your resume is quite long", word_count>>)>>
        ELSE <<>>

\* lines 240-248, rule 8
SectionItems(resume) ==
    LET critical_missing ==
            SelectSeq(check_sections(resume),
                      LAMBDA sec : sec \in {"experience", "education", "skills"})
    IN  IF critical_missing # <<>>
        THEN <<Item("danger", "Resume Structure",
                    <<"Missing critical sections", critical_missing>>)>>
        ELSE <<>>

\* lines 250-263, rule 9
ContactItems(resume) ==
    LET contact_info == check_contact_info(resume)
    IN  (IF ~contact_info.email
         THEN <<Item("danger", "Contact Info", <<"No email address detected!">>)>>
         ELSE <<>>)
        \o (IF ~contact_info.linkedin /\ ~contact_info.github
            THEN <<Item("info", "Online Presence",
                        <<"Consider adding LinkedIn or GitHub profiles">>)>>
            ELSE <<>>)

\* lines 265-273, rule 10
ContextItems(resume, result) ==
    LET counts == check_keyword_stuffing(resume, result.matched_skills)
    IN  IF result.matched_skills # <<>> /\ counts[2] > 0
           /\ 10 * counts[1] < 3 * counts[2]
        THEN <<Item("info", "Skills Integration",
                    <<"Your skills appear to be listed but not demonstrated in context.">>)>>
        ELSE <<>>

\* lines 275-280, rule 11
AtsItems == <<Item("info", "ATS Optimization", <<"For ATS compatibility">>)>>

\* lines 282-290, rule 12
EducationItems(result) ==
    LET jd_education == Range(result.jd_education)
        resume_edu == Range(result.resume_education)
    IN  IF ("masters" \in jd_education \/ "phd" \in jd_education)
           /\ "masters" \in jd_education
           /\ "masters" \notin resume_edu /\ "phd" \notin resume_edu
        THEN <<Item("info", "Education",
                    <<"This position may prefer advanced degrees.">>)>>
        ELSE <<>>

\* the lists generate_suggestions can return for one resume and one result
SuggestionLists(resume, result) ==
    {MatchScoreItems(result) \o HighPriorityItems(result)
        \o CategoryItems(result, prog, fram, cloud) \o ExperienceItems(result)
        \o ActionVerbItems(resume) \o MetricItems(resume) \o LengthItems(resume)
        \o SectionItems(resume) \o ContactItems(resume)
        \o ContextItems(resume, result) \o AtsItems \o EducationItems(result) :
     prog \in TakeAny(result.missing_categories["programming"], 4),
     fram \in TakeAny(result.missing_categories["frameworks"], 4),
     cloud \in TakeAny(result.missing_categories["cloud_devops"], 4)}

(* generate_suggestions as a process: the position pc walks the rules and  *)
(* each rule appends its items to the list.                               *)

\* a rule that puts its items in front of the list
Step_Prepend(from, to, items) ==
    /\ pc = from
    /\ suggestions' = items \o suggestions
    /\ pc' = to
    /\ UNCHANGED <<matchVars, extractVars, resume_text, job_description, analysis,
                   webVars>>

\* suggestions.append(...) of each item of a rule, in order
Step(from, to, items) ==
    /\ pc = from
    /\ suggestions' = suggestions \o items
    /\ pc' = to
    /\ UNCHANGED <<matchVars, extractVars, resume_text, job_description, analysis,
                   webVars>>

\* line 111 `suggestions = []` and rule 1
Rule1_MatchScore ==
    /\ pc = "rule1"
    /\ suggestions' = MatchScoreItems(analysis)
    /\ pc' = "rule2"
    /\ UNCHANGED <<matchVars, extractVars, resume_text, job_description, analysis,
                   webVars>>

Rule2_HighPriority == Step("rule2", "rule3", HighPriorityItems(analysis))

Rule3_Categories ==
    /\ pc = "rule3"
    /\ \E prog \in TakeAny(analysis.missing_categories["programming"], 4),
          fram \in TakeAny(analysis.missing_categories["frameworks"], 4),
          cloud \in TakeAny(analysis.missing_categories["cloud_devops"], 4) :
           Step("rule3", "rule4", CategoryItems(analysis, prog, fram, cloud))

Rule4_Experience == Step("rule4", "rule5", ExperienceItems(analysis))

Rule5_ActionVerbs == Step("rule5", "rule6", ActionVerbItems(resume_text))

Rule6_Metrics == Step("rule6", "rule7", MetricItems(resume_text))

Rule7_Length == Step("rule7", "rule8", LengthItems(resume_text))

Rule8_Sections == Step("rule8", "rule9", SectionItems(resume_text))

Rule9_Contact == Step("rule9", "rule10", ContactItems(resume_text))

Rule10_Context == Step("rule10", "rule11", ContextItems(resume_text, analysis))

Rule11_Ats == Step("rule11", "rule12", AtsItems)

\* rule 12 and `return suggestions`
Rule12_Education == Step("rule12", "done", EducationItems(analysis))

generate_suggestions ==
    \/ Rule1_MatchScore \/ Rule2_HighPriority \/ Rule3_Categories
    \/ Rule4_Experience \/ Rule5_ActionVerbs \/ Rule6_Metrics \/ Rule7_Length
    \/ Rule8_Sections \/ Rule9_Contact \/ Rule10_Context \/ Rule11_Ats
    \/ Rule12_Education

-----------------------------------------------------------------------------
(* The analysis of one resume against one job description: analyze_resume, *)
(* then generate_suggestions on its result, as app.py lines 122-130 call   *)
(* them.  Both texts are non-blank and stripped there (lines 91-99, 116).  *)

ResumeWords == <<"python", "django led", "a@b.co 30%">>
JdWords == <<"python,django", "kubernetes required, kubernetes", "kubernetes", "senior, 5+ years">>
MaxResumeWords == 2
MaxJdWords == 2

ScenarioResume ==
    "Experienced in Python, Django, and AWS. Led a team of 5 engineers. Increased throughput by 30%."
ScenarioJd ==
    "Looking for a senior Python developer with Django and Kubernetes experience, 5+ years required."

Init ==
    /\ \/ /\ resume_text \in TextsOf(ResumeWords, MaxResumeWords)
          /\ job_description \in TextsOf(JdWords, MaxJdWords)
       \/ /\ resume_text = ScenarioResume
          /\ job_description = ScenarioJd
    /\ analysis = NoValue
    /\ suggestions = NoValue
    /\ pc = "analyze"
    /\ NoMatch /\ NoExtract /\ NoWeb

AnalyzeResume ==
    /\ pc = "analyze"
    /\ analysis' = analyze_resume(resume_text, job_description)
    /\ pc' = "rule1"
    /\ UNCHANGED <<matchVars, extractVars, resume_text, job_description,
                   suggestions, webVars>>

Next == AnalyzeResume \/ generate_suggestions

Spec == Init /\ [][Next]_vars

-----------------------------------------------------------------------------
(* C3: the scenario of the specification: python and django matched,       *)
(* kubernetes missing, a senior position asking for 5 years, and a score   *)
(* of 66.7 from exactly 3 job-description skills of which 2 are matched.   *)
C3_Scenario ==
    (pc # "analyze" /\ resume_text = ScenarioResume /\ job_description = ScenarioJd) =>
        /\ {"python", "django"} \subseteq Range(analysis.matched_skills)
        /\ "kubernetes" \in Range(analysis.missing_skills)
        /\ analysis.jd_experience_level = "senior"
        /\ analysis.jd_years_required = Some(5)
        /\ analysis.match_score = 667
        /\ analysis.jd_skill_count = 3
        /\ Len(analysis.matched_skills) = 2

C3_Witness ==
    /\ pc = "done"
    /\ resume_text = ScenarioResume
    /\ job_description = ScenarioJd
    /\ analysis.match_score = 667

\* how often the job description mentions a skill: the whole-word occurrences
\* of its name and of the alias tokens that map to it
Mentions(skill, jd) ==
    Cardinality(WordOccurrences(Lower(skill), Lower(jd)))
    + Cardinality(UNION {{<<k, i>> : i \in WordOccurrences(SKILL_ALIASES[k][1], Lower(jd))} :
                          k \in {j \in DOMAIN SKILL_ALIASES :
                                   /\ SKILL_ALIASES[j][2] = Lower(skill)
                                   /\ SKILL_ALIASES[j][1] # Lower(skill)}})

(* C6: every missing skill that the job description mentions two or more  *)
(* times, wherever the mentions are and however they are spelled, is in    *)
(* high_priority_missing.                                                  *)
C6_HighPriorityComplete ==
    pc = "rule1" =>
        \A s \in Range(analysis.missing_skills) :
            Mentions(s, job_description) >= 2
                => s \in Range(analysis.high_priority_missing)

(* C7: high_priority_missing is a subset of missing_skills, and each of    *)
(* its elements has a job-description frequency count of at least 2.       *)
C7_HighPrioritySubset ==
    pc = "rule1" =>
        LET freq == get_skill_frequency(job_description, extract_skills(job_description))
        IN  /\ Range(analysis.high_priority_missing) \subseteq Range(analysis.missing_skills)
            /\ \A s \in Range(analysis.high_priority_missing) :
                   s \in DOMAIN freq /\ freq[s] >= 2

C7_Witness ==
    /\ pc = "done"
    /\ analysis.high_priority_missing = <<"kubernetes">>
    /\ Len(analysis.missing_skills) > 1

\* the categories of the cascade, in the order of the rules
CascadeOrder ==
    <<"Match Score", "Critical Skills Gap", "Programming Languages", "Frameworks",
      "Cloud/DevOps", "Experience Level", "Years Required", "Action Verbs",
      "Quantifiable Results", "Content Length", "Resume Structure", "Contact Info",
      "Online Presence", "Skills Integration", "ATS Optimization", "Education">>

CascadePosition(category) ==
    CHOOSE k \in DOMAIN CascadeOrder : CascadeOrder[k] = category

Started == pc \notin {"analyze", "rule1"}

\* the categories of the list are a subsequence of CascadeOrder
InCascadeOrder(list) ==
    /\ \A i \in DOMAIN list : list[i].category \in Range(CascadeOrder)
    /\ \A i, j \in DOMAIN list :
           i < j => CascadePosition(list[i].category) < CascadePosition(list[j].category)

HasItem(list, type, message) ==
    \E i \in DOMAIN list : list[i].type = type /\ list[i].message[1] = message

\* a resume in which no email and no metric pattern can match
NoEmailNoMetrics(resume) ==
    CharsOf(resume) \cap (DigitSet \cup {"@", "$"}) = {}

(* C8: the categories of the list are a subsequence of the cascade order;  *)
(* a later rule leaves the items of the earlier rules in place; and for a  *)
(* resume with no email and no metrics both the "No metrics found" warning *)
(* and the "No email address detected" danger item are returned, the       *)
(* contact item after the metrics item.                                    *)
C8_CascadeOrder ==
    /\ [](Started => InCascadeOrder(suggestions))
    /\ [][Started => /\ Len(suggestions') >= Len(suggestions)
                     /\ SubSeq(suggestions', 1, Len(suggestions)) = suggestions]_vars
    /\ []((pc = "done" /\ NoEmailNoMetrics(resume_text)) =>
            \E i, j \in DOMAIN suggestions :
                /\ i < j
                /\ suggestions[i] = Item("warning", "Quantifiable Results", <<"No metrics found!">>)
                /\ suggestions[j] = Item("danger", "Contact Info", <<"No email address detected!">>))

C8_Witness ==
    /\ pc = "done"
    /\ NoEmailNoMetrics(resume_text)
    /\ HasItem(suggestions, "warning", "No metrics found!")
    /\ HasItem(suggestions, "danger", "No email address detected!")
    /\ HasItem(suggestions, "danger", "These skills are mentioned multiple times")

\* the indices of the items of a category
ItemsOf(list, category) == {i \in DOMAIN list : list[i].category = category}

(* C9: the list returned has at least 2 items: exactly one Match Score     *)
(* item, the first, of type success from 80, info from 60, warning from 40 *)
(* and danger below; and exactly one ATS Optimization item, of type info.  *)
C9_ScoreAndAts ==
    pc = "done" =>
        /\ Len(suggestions) >= 2
        /\ ItemsOf(suggestions, "Match Score") = {1}
        /\ suggestions[1].type =
               (IF analysis.match_score >= 800 THEN "success"
                ELSE IF analysis.match_score >= 600 THEN "info"
                ELSE IF analysis.match_score >= 400 THEN "warning"
                ELSE "danger")
        /\ Cardinality(ItemsOf(suggestions, "ATS Optimization")) = 1
        /\ \A i \in ItemsOf(suggestions, "ATS Optimization") : suggestions[i].type = "info"

C9_Witness ==
    /\ pc = "done"
    /\ analysis.match_score = 667
    /\ suggestions[1] = Item("info", "Match Score", <<"Good match", 667>>)
    /\ ItemsOf(suggestions, "ATS Optimization") # {}

-----------------------------------------------------------------------------
-----------------------------------------------------------------------------
(* app.py: POST /analyze.  Requests run concurrently, one thread each; a   *)
(* request is at a position of the handler (its state) with the handler's  *)
(* locals.  A step of a request is one access to what the requests share:  *)
(* the upload folder, the table analyses, the clock.                       *)

\* str.strip(chars)
StripOf(s, chars) ==
    LET keep == {i \in 1..Len(s) : Char(s, i) \notin chars}
    IN  IF keep = {} THEN ""
        ELSE SubSeq(s, CHOOSE i \in keep : \A j \in keep : i <= j,
                       CHOOSE i \in keep : \A j \in keep : i >= j)

\* the index of the last "." of a name, 0 without one
LastDot(name) ==
    LET dots == {i \in 1..Len(name) : Char(name, i) = "."}
    IN  IF dots = {} THEN 0 ELSE CHOOSE i \in dots : \A j \in dots : i >= j

\* config.py
ALLOWED_EXTENSIONS == {"pdf", "docx"}

\* services/parser.py: allowed_file
allowed_file(filename, allowed_extensions) ==
    /\ LastDot(filename) > 0
    /\ Lower(SubSeq(filename, LastDot(filename) + 1, Len(filename))) \in allowed_extensions

\* werkzeug.utils.secure_filename on ASCII names: path separators become
\* spaces, runs of whitespace become "_", characters other than letters,
\* digits and "_.-" are dropped, leading and trailing "." and "_" stripped
SafeChar(c) == IF WordChar(c) \/ c \in {".", "-"} THEN c ELSE ""

SlashToSpace(c) == IF c = "/" THEN " " ELSE c

secure_filename(filename) ==
    StripOf(MapChars(SafeChar, Join("_", Split(MapChars(SlashToSpace, filename)))),
            {".", "_"})

\* an uploaded document: the format its bytes have and the text it holds
Document(format, content) == [format |-> format, text |-> content]

\* the path of a saved upload: the second of the timestamp and the name
NoPath == <<>>

\* os.path.splitext(file_path)[1].lower() of a path; the basename starts
\* with the timestamp, so a "." of the name is never a leading one
ExtensionOf(filepath) ==
    IF LastDot(filepath[2]) = 0 THEN ""
    ELSE Lower(SubSeq(filepath[2], LastDot(filepath[2]), Len(filepath[2])))

\* services/parser.py: extract_text; the result is <<"ok", text>>, or
\* <<"raise", "">> when the extension is unsupported, the file is gone or
\* its bytes are not of the format the reader opens
extract_text(filepath, folder) ==
    LET ext == ExtensionOf(filepath)
    IN  IF ext \notin {".pdf", ".docx"} THEN <<"raise", "">>
        ELSE IF filepath \notin DOMAIN folder THEN <<"raise", "">>
        ELSE IF "." \o folder[filepath].format # ext THEN <<"raise", "">>
        ELSE <<"ok", Strip(folder[filepath].text)>>

\* services/ai_analyzer.py: what get_ai_analysis can return with the key set:
\* the parsed response, or one of the two fallback dicts
AiResults == {"insights", "parse_error_fallback", "request_error_fallback"}

\* what the call of the Gemini API can do: raise (network, quota, a blocked
\* response), answer with text that is not JSON, or answer with JSON
AiBehaviours == {"exception", "malformed_json", "valid_json"}

\* a get_ai_analysis whose handler of the API's exceptions re-raises
get_ai_analysis_Raises(key, behaviour) ==
    IF ~key THEN "None"
    ELSE IF behaviour = "valid_json" THEN "insights"
    ELSE IF behaviour = "malformed_json" THEN "parse_error_fallback"
    ELSE "raise"

\* services/ai_analyzer.py: get_ai_analysis.  Without the key it returns None
\* (lines 38-39); the call and the parsing are inside one try whose handlers
\* return the fallback dicts (lines 108-127)
get_ai_analysis(key, behaviour) ==
    IF ~key THEN "None"
    ELSE IF behaviour = "valid_json" THEN "insights"
    ELSE IF behaviour = "malformed_json" THEN "parse_error_fallback"
    ELSE "request_error_fallback"

\* line 146: json.dumps(ai_analysis) if ai_analysis else None
AiColumn(ai_analysis) == IF ai_analysis = "None" THEN "NULL" ELSE ai_analysis

-----------------------------------------------------------------------------
(* The requests.                                                           *)

NumRequests == 2
MaxClock == 1

Requests == 1..NumRequests

\* the browser a request comes from, with the session_id of its cookie
ClientOf(r) == IF r % 2 = 1 THEN "alice" ELSE "bob"


Filenames == {"", "cv.txt", "my cv.PDF", ".pdf"}
JobDescriptions == {"  ", " python, django "}
Documents ==
    {Document("pdf", "python\n"), Document("pdf", " \n"), Document("docx", "java")}

\* no upload
NoFile == Document("", "")

\* the locals of the handler; exception is the call that raised into the
\* except clause, "" when none did
Local(state, session_id, jd, file, filepath, extracted) ==
    [state |-> state, session_id |-> session_id, job_description |-> jd,
     file |-> file, filepath |-> filepath, resume_text |-> extracted, exception |-> ""]

\* a request that has returned keeps no locals
Returned(state) == Local(state, "", "", NoFile, NoPath, "")

\* the request in the except clause of lines 153-157
Raised(q, call) == [q EXCEPT !.state = "except", !.exception = call]

InitWeb ==
    /\ clock = 0
    /\ upload_folder = <<>>
    /\ analyses = <<>>
    /\ requests = [r \in Requests |-> Returned("idle")]
    /\ gemini_api_key \in BOOLEAN
    /\ response = NoValue
    /\ pc = NoValue
    /\ NoMatch /\ NoExtract /\ NoPipeline

WebStep(r, local) ==
    /\ requests' = [requests EXCEPT ![r] = local]
    /\ UNCHANGED <<matchVars, extractVars, pipelineVars, pc, clock, gemini_api_key,
                   response>>

\* the second of datetime.now() passes
Tick ==
    /\ clock < MaxClock
    /\ clock' = clock + 1
    /\ UNCHANGED <<matchVars, extractVars, pipelineVars, pc, upload_folder,
                   analyses, requests, gemini_api_key, response>>

\* lines 106-110: file.save(filepath), which creates or overwrites the file
Saved(filepath, file, folder) ==
    [p \in DOMAIN folder \cup {filepath} |-> IF p = filepath THEN file ELSE folder[p]]

\* before_request and lines 84-110: the request arrives with its session, is
\* validated, and its upload is saved under the second of the clock
Receive(r) ==
    /\ requests[r].state = "idle"
    /\ \E has_file \in BOOLEAN, filename \in Filenames,
          form_jd \in JobDescriptions, file \in Documents :
           LET jd == Strip(form_jd)
               filepath == <<clock, secure_filename(filename)>>
           IN  IF \/ ~has_file
                  \/ filename = ""
                  \/ jd = ""
                  \/ ~allowed_file(filename, ALLOWED_EXTENSIONS)
               THEN /\ WebStep(r, Returned("rejected"))
                    /\ UNCHANGED upload_folder
               ELSE /\ WebStep(r, Local("extract", ClientOf(r), jd, file, filepath, ""))
                    /\ upload_folder' = Saved(filepath, file, upload_folder)
    /\ UNCHANGED analyses

\* lines 114-116: extract_text(filepath) and the test of its result
ExtractText(r) ==
    LET q == requests[r]
        result == extract_text(q.filepath, upload_folder)
    IN  /\ q.state = "extract"
        /\ WebStep(r,
               IF result[1] = "raise" THEN Raised(q, "extract_text")
               ELSE IF Strip(result[2]) = "" THEN [q EXCEPT !.state = "remove_empty"]
               ELSE [q EXCEPT !.state = "analyze", !.resume_text = result[2]])
        /\ UNCHANGED <<upload_folder, analyses>>

\* os.remove(filepath)
Remove(filepath, folder) ==
    [p \in DOMAIN folder \ {filepath} |-> folder[p]]

\* lines 117-119: os.remove(filepath) of the resume without text; on a file
\* that is gone it raises into the except clause
RemoveEmpty(r) ==
    LET q == requests[r]
    IN  /\ q.state = "remove_empty"
        /\ IF q.filepath \in DOMAIN upload_folder
           THEN /\ upload_folder' = Remove(q.filepath, upload_folder)
                /\ WebStep(r, Returned("failed"))
           ELSE /\ UNCHANGED upload_folder
                /\ WebStep(r, Raised(q, "os.remove"))
        /\ UNCHANGED analyses

\* lines 122 and 130 on the texts the requests can carry
Analysed ==
    [t \in {Strip(d.text) : d \in Documents}, jd \in {Strip(j) : j \in JobDescriptions} |->
        IF t = "" \/ jd = "" THEN NoValue ELSE analyze_resume(t, jd)]

Suggested ==
    [t \in {Strip(d.text) : d \in Documents}, jd \in {Strip(j) : j \in JobDescriptions} |->
        IF t = "" \/ jd = "" THEN {} ELSE SuggestionLists(t, Analysed[t, jd])]

\* the row of lines 133-148
Row(id, q, result, ai_analysis, list) ==
    [id |-> id, session_id |-> q.session_id, resume_filename |-> q.filepath,
     resume_text |-> q.resume_text, job_description |-> q.job_description,
     match_score |-> result.match_score, analysis_data |-> result,
     ai_analysis |-> ai_analysis, suggestions |-> list]

\* lines 122-151: the analysis, the enrichment, the suggestions, the INSERT
\* and its commit; an exception out of get_ai_analysis would reach the
\* except clause before anything is written
InsertAnalysis(r) ==
    LET q == requests[r]
        result == Analysed[q.resume_text, q.job_description]
    IN  /\ q.state = "analyze"
        /\ \E behaviour \in AiBehaviours,
              list \in Suggested[q.resume_text, q.job_description] :
               LET ai_analysis == IF gemini_api_key
                                  THEN get_ai_analysis(gemini_api_key, behaviour)
                                  ELSE "None"
               IN  IF ai_analysis = "raise"
                   THEN /\ WebStep(r, Raised(q, "get_ai_analysis"))
                        /\ UNCHANGED analyses
                   ELSE /\ WebStep(r, Returned("redirected"))
                        /\ analyses' = Append(analyses,
                               Row(Len(analyses) + 1, q, result,
                                   AiColumn(ai_analysis), list))
        /\ UNCHANGED upload_folder

\* lines 122-149 raise (the INSERT or the commit fails): nothing is written
InsertRaises(r) ==
    LET q == requests[r]
    IN  /\ q.state = "analyze"
        /\ WebStep(r, Raised(q, "sqlite3"))
        /\ UNCHANGED <<upload_folder, analyses>>

\* an except clause that returns without removing the file
ExceptExists_NoCleanup(r) ==
    LET q == requests[r]
    IN  /\ q.state = "except"
        /\ WebStep(r, Returned("failed"))
        /\ UNCHANGED <<upload_folder, analyses>>

\* lines 153-155: the except clause tests os.path.exists(filepath)
ExceptExists(r) ==
    LET q == requests[r]
    IN  /\ q.state = "except"
        /\ WebStep(r, IF q.filepath \in DOMAIN upload_folder
                      THEN [q EXCEPT !.state = "except_remove"]
                      ELSE Returned("failed"))
        /\ UNCHANGED <<upload_folder, analyses>>

\* lines 156-157: os.remove(filepath) in the except clause; on a file that
\* is gone by now it raises out of the handler
ExceptRemove(r) ==
    LET q == requests[r]
    IN  /\ q.state = "except_remove"
        /\ IF q.filepath \in DOMAIN upload_folder
           THEN /\ upload_folder' = Remove(q.filepath, upload_folder)
                /\ WebStep(r, Returned("failed"))
           ELSE /\ UNCHANGED upload_folder
                /\ WebStep(r, Returned("error"))
        /\ UNCHANGED analyses

analyze(r) ==
    \/ Receive(r) \/ ExtractText(r) \/ RemoveEmpty(r)
    \/ InsertAnalysis(r) \/ InsertRaises(r) \/ ExceptExists(r) \/ ExceptRemove(r)

NextWeb == Tick \/ \E r \in Requests : analyze(r)

SpecWeb == InitWeb /\ [][NextWeb]_vars

\* the states of a request that has returned without a redirect
Refused == {"rejected", "failed", "error"}

(* C10: a request that is rejected or fails adds no row to analyses and    *)
(* leaves no file at its path in the upload folder (a rejected one never   *)
(* writes a file); a row is added by the step of a request that completes, *)
(* which adds exactly one, so the rows are as many as the completed        *)
(* requests.                                                               *)
C10_NoRowNoFile ==
    /\ [][\A r \in Requests :
            /\ (requests[r].state \notin Refused /\ requests'[r].state \in Refused) =>
                   /\ analyses' = analyses
                   /\ IF requests[r].filepath = NoPath
                      THEN upload_folder' = upload_folder
                      ELSE requests[r].filepath \notin DOMAIN upload_folder'
            /\ (requests[r].state # "redirected" /\ requests'[r].state = "redirected") =>
                   /\ Len(analyses') = Len(analyses) + 1
                   /\ SubSeq(analyses', 1, Len(analyses)) = analyses]_vars
    /\ [][analyses' # analyses =>
            \E r \in Requests :
                requests[r].state = "analyze" /\ requests'[r].state = "redirected"]_vars
    /\ [](Len(analyses) = Cardinality({r \in Requests : requests[r].state = "redirected"}))

C10_Witness ==
    \E r1, r2 \in Requests :
        /\ requests[r1].state = "failed"
        /\ requests[r2].state = "redirected"
        /\ Len(analyses) = 1
        /\ Cardinality(DOMAIN upload_folder) = 1

-----------------------------------------------------------------------------
(* SpecExtract, continued: the frequency map and the vocabulary names.     *)

(* C17: for every text the keys of get_skill_frequency(text,               *)
(* extract_skills(text)) are the skills extract_skills(text) found: every  *)
(* extracted skill has a count of at least 1 and only skills with a count  *)
(* of at least 1 are keys.                                                 *)
C17_FrequencyKeys ==
    pc = "extracted" =>
        /\ DOMAIN frequency = found_skills
        /\ \A skill \in DOMAIN frequency : frequency[skill] >= 1

(* C18: a text that is the canonical name of a vocabulary skill, whatever  *)
(* characters the name holds, yields a set that contains that skill.       *)
C18_NameExtractable ==
    pc = "extracted" =>
        \A k \in DOMAIN ALL_SKILLS :
            text = ALL_SKILLS[k] => ALL_SKILLS[k] \in found_skills

-----------------------------------------------------------------------------
(* SpecRules: the pipeline of Spec on resumes that differ in their action  *)
(* verbs and education, and job descriptions that differ in the education  *)
(* and the years they ask for, with skills of all seven categories.        *)

RuleResumeWords ==
    <<"led achieved created improved engineered analyzed git python",
      "managed directed supervised delivered completed mysql",
      "led led led led led aws">>
RuleJdWords ==
    <<"phd, python, react, aws", "masters degree, mysql, git",
      "0-2 years, leadership, pandas", "3-5 years and 7+ years">>
MaxRuleResumeWords == 2
MaxRuleJdWords == 2

InitRules ==
    /\ resume_text \in TextsOf(RuleResumeWords, MaxRuleResumeWords)
    /\ job_description \in TextsOf(RuleJdWords, MaxRuleJdWords)
    /\ analysis = NoValue
    /\ suggestions = NoValue
    /\ pc = "analyze"
    /\ NoMatch /\ NoExtract /\ NoWeb

SpecRules == InitRules /\ [][Next]_vars

\* the items of one category, in the order of the list
ItemsIn(list, category) == SelectSeq(list, LAMBDA item : item.category = category)

(* C12: when jd_years_required of the analysis is present, whatever the    *)
(* captured integer, the list returned holds exactly one Years Required    *)
(* item, of type info, whose message holds that number; when it is absent  *)
(* the list holds none.                                                    *)
C12_YearsRequired ==
    pc = "done" =>
        LET items == ItemsIn(suggestions, "Years Required")
        IN  IF analysis.jd_years_required # None
            THEN /\ Len(items) = 1
                 /\ items[1].type = "info"
                 /\ items[1].message[2] = analysis.jd_years_required
            ELSE items = <<>>

(* C13: the list returned holds the Education info item if and only if the *)
(* education of the job description includes masters or phd and the        *)
(* education of the resume includes neither.                               *)
C13_EducationRule ==
    pc = "done" =>
        LET jd_education == Range(analysis.jd_education)
            resume_education == Range(analysis.resume_education)
        IN  (ItemsIn(suggestions, "Education") # <<>>) <=>
                /\ jd_education \cap {"masters", "phd"} # {}
                /\ resume_education \cap {"masters", "phd"} = {}

\* the listed verbs that occur in the lowercased resume, and the categories
\* without a verb among those present, in the order of ACTION_VERBS
VerbsPresent(resume) ==
    LET text_lower == Lower(resume)
    IN  {verb \in ALL_ACTION_VERBS : Contains(text_lower, verb)}

EmptyVerbCategories(present) ==
    SelectSeq([k \in DOMAIN ACTION_VERBS |-> ACTION_VERBS[k][1]],
              LAMBDA c : \A k \in DOMAIN ACTION_VERBS :
                             ACTION_VERBS[k][1] = c =>
                                 Range(ACTION_VERBS[k][2]) \cap present = {})

\* the occurrences of listed verbs in the lowercased resume, a verb that
\* occurs k times counted k times
VerbOccurrences(resume) ==
    LET text_lower == Lower(resume)
    IN  {<<verb, i>> \in ALL_ACTION_VERBS \X (1..Len(resume)) :
            LitAt(text_lower, i, verb)}

\* what the rule emits for a count n: one warning below 5, one info item
\* naming the first two empty categories from 5 to 9 if a category is
\* empty, nothing otherwise
ActionVerbRule(list, present, n) ==
    LET items == ItemsIn(list, "Action Verbs")
        empty == EmptyVerbCategories(present)
    IN  IF n < 5
        THEN Len(items) = 1 /\ items[1].type = "warning"
        ELSE IF n < 10 /\ empty # <<>>
        THEN /\ Len(items) = 1
             /\ items[1].type = "info"
             /\ items[1].message[2]
                    = SubSeq(empty, 1, IF Len(empty) < 2 THEN Len(empty) ELSE 2)
        ELSE items = <<>>

(* C14, as amended: the rule counts the listed action verbs that occur in  *)
(* the resume (case-insensitive substring), each verb once however often   *)
(* it occurs; a count below 5 emits one Action Verbs warning, a count of 5 *)
(* to 9 one Action Verbs info item naming up to 2 categories without a     *)
(* hit if there is one, a count of 10 or more no Action Verbs item.        *)
C14_ActionVerbs ==
    pc = "done" =>
        LET present == VerbsPresent(resume_text)
        IN  ActionVerbRule(suggestions, present, Cardinality(present))

(* C14, as stated: the count is the total number of occurrences, a verb    *)
(* occurring k times contributing k.                                       *)
C14_OccurrenceCount ==
    pc = "done" =>
        ActionVerbRule(suggestions, VerbsPresent(resume_text),
                       Cardinality(VerbOccurrences(resume_text)))

\* a resume with one verb five times gets the warning; one with five verbs
\* of two categories gets the info item
C14_Witness ==
    /\ pc = "done"
    /\ Cardinality(VerbsPresent(resume_text)) = 1
    /\ Cardinality(VerbOccurrences(resume_text)) >= 5
    /\ \E i \in DOMAIN suggestions :
           suggestions[i].category = "Action Verbs" /\ suggestions[i].type = "warning"

\* every integer one of the three patterns captures in the lowercased text
CapturedYears(t) ==
    LET text_lower == Lower(t)
        Captures(seq) == {IntOf(seq[k]) : k \in DOMAIN seq}
    IN  Captures(FindAllFrom(YearsPattern1At, text_lower, 1))
            \cup Captures(FindAllFrom(YearsPattern2At, text_lower, 1))
            \cup Captures(FindAllFrom(YearsPattern3At, text_lower, 1))

(* C15: jd_years_required, which is extract_years_experience of the job    *)
(* description, is absent when no pattern captures anything and otherwise  *)
(* the least of all integers captured by any of the three patterns; the    *)
(* text "3-5 years and 7+ years" yields 3.                                 *)
C15_YearsMinimum ==
    pc = "rule1" =>
        /\ LET captured == CapturedYears(job_description)
           IN  IF captured = {}
               THEN analysis.jd_years_required = None
               ELSE \E y \in captured :
                        /\ analysis.jd_years_required = Some(y)
                        /\ \A z \in captured : y <= z
        /\ job_description = "3-5 years and 7+ years" =>
               analysis.jd_years_required = Some(3)

C15_Witness ==
    /\ pc = "rule1"
    /\ job_description = "3-5 years and 7+ years"
    /\ CapturedYears(job_description) = {3, 5, 7}
    /\ analysis.jd_years_required = Some(3)

\* the category of the vocabulary list that holds a skill
VocabularyCategories(skill) ==
    {CATEGORY_TABLE[k][1] : k \in {j \in DOMAIN CATEGORY_TABLE :
        \E n \in DOMAIN CATEGORY_TABLE[j][2] :
            Lower(CATEGORY_TABLE[j][2][n]) = Lower(skill)}}

\* the category lists are a partition of the skill list by vocabulary list
PartitionedBy(categories, skills) ==
    /\ Cardinality(DOMAIN categories) = Len(CATEGORY_TABLE)
    /\ \A skill \in Range(skills) :
           {c \in DOMAIN categories : skill \in categories[c]} = VocabularyCategories(skill)
    /\ \A skill \in Range(skills) : Cardinality(VocabularyCategories(skill)) = 1
    /\ \A c \in DOMAIN categories : categories[c] \subseteq Range(skills)

(* C16: in every analysis result matched_categories partitions             *)
(* matched_skills and missing_categories partitions missing_skills: each   *)
(* skill is in exactly one of the 7 category lists, the one of the         *)
(* vocabulary list that holds it; no skill is dropped and no category list *)
(* holds a skill that is not in the skill list.                            *)
C16_CategoriesPartition ==
    pc = "rule1" =>
        /\ PartitionedBy(analysis.matched_categories, analysis.matched_skills)
        /\ PartitionedBy(analysis.missing_categories, analysis.missing_skills)

C16_Witness ==
    /\ pc = "rule1"
    /\ analysis.matched_categories["programming"] # {}
    /\ analysis.missing_categories["frameworks"] # {}
    /\ analysis.missing_categories["soft_skills"] # {}
    /\ analysis.missing_categories["data_ai"] # {}

-----------------------------------------------------------------------------
(* SpecWeb, continued: the enrichment and the paths of concurrent uploads. *)

\* the two fallback dicts, which carry an "error" field
AiFallbacks == {"parse_error_fallback", "request_error_fallback"}

(* C11: whatever the enrichment call does, get_ai_analysis does not raise: *)
(* it returns None without the key, a fallback dict with an error field    *)
(* when the call raises or its answer is not JSON, and the parsed answer   *)
(* otherwise; no request is in the except clause because of it, and a      *)
(* request that leaves the analysis without a database error has stored    *)
(* one record with the analysis and the suggestions.                       *)
C11_EnrichmentNeverFatal ==
    /\ [](\A key \in BOOLEAN, behaviour \in AiBehaviours :
            LET ai_analysis == get_ai_analysis(key, behaviour)
            IN  /\ ai_analysis \in {"None"} \cup AiResults
                /\ ~key => ai_analysis = "None"
                /\ (key /\ behaviour # "valid_json") => ai_analysis \in AiFallbacks)
    /\ [](\A r \in Requests : requests[r].exception # "get_ai_analysis")
    /\ [][\A r \in Requests :
            (/\ requests[r].state = "analyze"
             /\ requests'[r].state # "analyze"
             /\ requests'[r].exception # "sqlite3") =>
                /\ requests'[r].state = "redirected"
                /\ Len(analyses') = Len(analyses) + 1
                /\ LET row == analyses'[Len(analyses')]
                       q == requests[r]
                   IN  /\ row.analysis_data = Analysed[q.resume_text, q.job_description]
                       /\ row.suggestions \in Suggested[q.resume_text, q.job_description]
                       /\ row.ai_analysis \in
                              IF gemini_api_key THEN AiResults ELSE {"NULL"}]_vars

\* a record stored although the enrichment call raised
C11_Witness ==
    \E i \in DOMAIN analyses :
        /\ analyses[i].ai_analysis = "request_error_fallback"
        /\ analyses[i].analysis_data.jd_skill_count > 0
        /\ analyses[i].suggestions # <<>>

(* C19: two concurrent requests never use the same upload path: the file   *)
(* of a request that has saved and not yet read it is in the folder as the *)
(* request saved it, and the resume_text of each record is the text of the *)
(* upload of the request that stored it.                                   *)
C19_NoPathCollision ==
    /\ [](\A r1, r2 \in Requests :
            (r1 # r2 /\ requests[r1].filepath # NoPath /\ requests[r2].filepath # NoPath)
                => requests[r1].filepath # requests[r2].filepath)
    /\ [](\A r \in Requests :
            requests[r].state = "extract" =>
                /\ requests[r].filepath \in DOMAIN upload_folder
                /\ upload_folder[requests[r].filepath] = requests[r].file)
    /\ [][\A r \in Requests :
            (requests[r].state = "analyze" /\ requests'[r].state = "redirected") =>
                analyses'[Len(analyses')].resume_text = Strip(requests[r].file.text)]_vars

-----------------------------------------------------------------------------
(* SpecSessions: GET /history and GET /results/<id> on a table that POST   *)
(* /analyze requests of two sessions have written.                         *)

MaxRows == 2

\* LIMIT 20 of the query of history
HistoryLimit == 20

\* the session_id of the cookie a GET request carries; "" is no cookie
Cookies == {"alice", "bob", ""}

\* os.urandom(16).hex(): an id no stored record has
FreshSession == "fresh"

\* before_request: a request without a session_id gets a fresh one
before_request(cookie) == IF cookie = "" THEN FreshSession ELSE cookie

\* the records POST /analyze writes for the sessions alice and bob
StoredRows(id) ==
    {Row(id, Local("analyze", session_id, "python, django", file,
                   <<0, "my_cv.PDF">>, Strip(file.text)),
         Analysed[Strip(file.text), "python, django"], "NULL",
         CHOOSE list \in Suggested[Strip(file.text), "python, django"] : TRUE) :
     session_id \in {"alice", "bob"},
     file \in {d \in Documents : Strip(d.text) # ""}}

\* the tables of n records, the ids in the order of the INSERTs
RECURSIVE Tables(_)
Tables(n) ==
    IF n = 0 THEN {<<>>}
    ELSE Tables(n - 1) \cup
         {Append(t, row) : t \in {u \in Tables(n - 1) : Len(u) = n - 1}, row \in StoredRows(n)}

\* the answer to a GET request: the session it was given to and the ids of
\* the records it shows
Response(route, session_id, ids) == [route |-> route, session_id |-> session_id, ids |-> ids]

InitSessions ==
    /\ analyses \in Tables(MaxRows)
    /\ response = Response("", "", {})
    /\ clock = NoValue /\ upload_folder = NoValue /\ requests = NoValue
    /\ gemini_api_key = NoValue
    /\ pc = NoValue
    /\ NoMatch /\ NoExtract /\ NoPipeline

\* the query of history: the records of the session, the newest first, at
\* most HistoryLimit of them
HistoryRows(session_id) ==
    LET own == {i \in DOMAIN analyses : analyses[i].session_id = session_id}
    IN  {i \in own : Cardinality({j \in own : j > i}) < HistoryLimit}

\* GET /history
history(cookie) ==
    /\ response' = Response("history", before_request(cookie),
                            HistoryRows(before_request(cookie)))
    /\ UNCHANGED <<matchVars, extractVars, pipelineVars, pc, clock, upload_folder,
                   analyses, requests, gemini_api_key>>

\* GET /results/<analysis_id>: the record with that id, of whatever session
results(cookie, analysis_id) ==
    /\ response' =
           IF analysis_id \in DOMAIN analyses
           THEN Response("results", before_request(cookie), {analysis_id})
           ELSE Response("redirect", before_request(cookie), {})
    /\ UNCHANGED <<matchVars, extractVars, pipelineVars, pc, clock, upload_folder,
                   analyses, requests, gemini_api_key>>

NextSessions ==
    \E cookie \in Cookies :
        \/ history(cookie)
        \/ \E analysis_id \in 1..(MaxRows + 1) : results(cookie, analysis_id)

SpecSessions == InitSessions /\ [][NextSessions]_vars

(* C20: a record written by a request of one session is only returned, by  *)
(* /history or by /results/<id>, to a request that carries the session_id  *)
(* of that session.                                                        *)
C20_SessionIsolation ==
    \A id \in response.ids : analyses[id].session_id = response.session_id

=============================================================================
